---- MODULE Spec2Model ----
(***************************************************************************)
(* Model of the hashing crate (src/src/lib.rs): the private sha1_smol      *)
(* engine (new / update / process_block / digest / bytes), and its two     *)
(* callers hash_bytes and hash_file (Algorithm::Sha1 arms).                *)
(*                                                                         *)
(* A u32 is a pair <<hi, lo>> of 16-bit halves, a u64 is four 16-bit limbs *)
(* <<l3, l2, l1, l0>> (most significant first), a byte is 0..255.          *)
(***************************************************************************)
EXTENDS Integers, Sequences, FiniteSets, TLC

\* ------------------------------------------------------------------------
\* Machine arithmetic
\* ------------------------------------------------------------------------

Half == 65536

RECURSIVE AndBits(_, _, _)
\* bitwise AND of two n-bit naturals, bit by bit
AndBits(a, b, n) ==
    IF n = 0 THEN 0
    ELSE (a % 2) * (b % 2) + 2 * AndBits(a \div 2, b \div 2, n - 1)

\* AND of two bytes, tabulated
AndByte == [a \in 0..255 |-> [b \in 0..255 |-> AndBits(a, b, 8)]]

And16(a, b) ==
    AndByte[a \div 256][b \div 256] * 256 + AndByte[a % 256][b % 256]

Or16(a, b) == a + b - And16(a, b)

Xor16(a, b) == a + b - 2 * And16(a, b)

Not16(a) == (Half - 1) - a

\* u32 operators: &, |, ^, !
BitAnd(x, y) == <<And16(x[1], y[1]), And16(x[2], y[2])>>

BitOr(x, y) == <<Or16(x[1], y[1]), Or16(x[2], y[2])>>

BitXor(x, y) == <<Xor16(x[1], y[1]), Xor16(x[2], y[2])>>

BitNot(x) == <<Not16(x[1]), Not16(x[2])>>

Pow2(n) == CASE n = 0 -> 1 [] n = 1 -> 2 [] n = 2 -> 4 [] n = 3 -> 8
             [] n = 4 -> 16 [] n = 5 -> 32 [] n = 6 -> 64 [] n = 7 -> 128
             [] n = 8 -> 256 [] n = 9 -> 512 [] n = 10 -> 1024
             [] n = 11 -> 2048 [] n = 12 -> 4096 [] n = 13 -> 8192
             [] n = 14 -> 16384 [] n = 15 -> 32768 [] n = 16 -> 65536

\* u32::rotate_left
rotate_left(x, n) ==
    LET s  == n % 16
        y  == IF n % 32 >= 16 THEN <<x[2], x[1]>> ELSE x
        up == Pow2(s)
        dn == Pow2(16 - s)
    IN  <<((y[1] * up) % Half) + (y[2] \div dn),
          ((y[2] * up) % Half) + (y[1] \div dn)>>

\* u32::wrapping_add
wrapping_add(x, y) ==
    LET lo == x[2] + y[2]
        hi == x[1] + y[1] + (lo \div Half)
    IN  <<hi % Half, lo % Half>>

\* u32::from_be_bytes
from_be_bytes(b0, b1, b2, b3) == <<b0 * 256 + b1, b2 * 256 + b3>>

\* u32::to_le_bytes
to_le_bytes(x) == <<x[2] % 256, x[2] \div 256, x[1] % 256, x[1] \div 256>>

\* u32::to_be_bytes
to_be_bytes(x) == <<x[1] \div 256, x[1] % 256, x[2] \div 256, x[2] % 256>>

\* a u32 literal written as its two 16-bit halves
U32(hi, lo) == <<hi, lo>>

\* ------------------------------------------------------------------------
\* sha1_smol::Sha1::process_block
\* ------------------------------------------------------------------------

K0 == U32(23170, 31129)  \* 0x5A827999
K1 == U32(28377, 60321)  \* 0x6ED9EBA1
K2 == U32(36635, 48348)  \* 0x8F1BBCDC
K3 == U32(51810, 49622)  \* 0xCA62C1D6

\* BlockWords reading each word least significant byte first
BlockWords_le(block) ==
    [i \in 1..16 |-> from_be_bytes(block[4 * i], block[4 * i - 1],
                                   block[4 * i - 2], block[4 * i - 3])]

\* w[0..16]: the block read as sixteen big-endian words (TLA+ index i+1)
BlockWords(block) ==
    [i \in 1..16 |-> from_be_bytes(block[4 * i - 3], block[4 * i - 2],
                                   block[4 * i - 1], block[4 * i])]

RECURSIVE Schedule(_)
\* w[16..80]: w[i] = (w[i-3] ^ w[i-8] ^ w[i-14] ^ w[i-16]).rotate_left(1)
Schedule(w) ==
    IF Len(w) >= 80 THEN w
    ELSE LET n == Len(w) + 1
         IN  Schedule(Append(w,
                 rotate_left(BitXor(BitXor(BitXor(w[n - 3], w[n - 8]),
                                           w[n - 14]), w[n - 16]), 1)))

\* RoundF with the parity function in rounds 40..=59 as well
RoundF_parity(i, b, c, d) ==
    IF i <= 19 THEN BitOr(BitAnd(b, c), BitAnd(BitNot(b), d))
    ELSE BitXor(BitXor(b, c), d)

\* the (f, k) pair of round i (0-based)
RoundF(i, b, c, d) ==
    IF i <= 19 THEN BitOr(BitAnd(b, c), BitAnd(BitNot(b), d))
    ELSE IF i <= 39 THEN BitXor(BitXor(b, c), d)
    ELSE IF i <= 59 THEN BitOr(BitOr(BitAnd(b, c), BitAnd(b, d)), BitAnd(c, d))
    ELSE BitXor(BitXor(b, c), d)

RoundK(i) ==
    IF i <= 19 THEN K0 ELSE IF i <= 39 THEN K1 ELSE IF i <= 59 THEN K2 ELSE K3

\* Round that passes b on to c without rotating it
Round_c_unrotated(i, v, w) ==
    LET temp == wrapping_add(wrapping_add(wrapping_add(wrapping_add(
                    rotate_left(v[1], 5), RoundF(i, v[2], v[3], v[4])),
                    v[5]), RoundK(i)), w[i + 1])
    IN  <<temp, v[1], v[2], v[3], v[4]>>

\* one iteration of the round loop on the working variables v = <<a,b,c,d,e>>
Round(i, v, w) ==
    LET temp == wrapping_add(wrapping_add(wrapping_add(wrapping_add(
                    rotate_left(v[1], 5), RoundF(i, v[2], v[3], v[4])),
                    v[5]), RoundK(i)), w[i + 1])
    IN  <<temp, v[1], rotate_left(v[2], 30), v[3], v[4]>>

RECURSIVE Rounds(_, _, _)
\* for i in 0..80 (the test on v evaluates the working variables of each
\* iteration before the next one starts)
Rounds(i, v, w) ==
    IF Len(v) = 5 /\ i < 80 THEN Rounds(i + 1, Round(i, v, w), w) ELSE v

\* process_block(&mut self, block): the new value of self.h
process_block(h, block) ==
    LET w == Schedule(BlockWords(block))
        v == Rounds(0, h, w)
    IN  [i \in 1..5 |-> wrapping_add(h[i], v[i])]

\* ------------------------------------------------------------------------
\* u64 byte counter (self.len)
\* ------------------------------------------------------------------------

\* data.len() as u64, for a length below 2^31
U64(n) == <<0, 0, n \div Half, n % Half>>

\* a + b on u64: the wrapped sum and whether the true sum passed 2^64
AddU64(a, b) ==
    LET s0 == a[4] + b[4]
        s1 == a[3] + b[3] + (s0 \div Half)
        s2 == a[2] + b[2] + (s1 \div Half)
        s3 == a[1] + b[1] + (s2 \div Half)
    IN  [val |-> <<s3 % Half, s2 % Half, s1 % Half, s0 % Half>>,
         ovf |-> s3 >= Half]

\* a * 8 on u64: the wrapped product and whether the true product passed 2^64
Mul8U64(a) ==
    [val |-> <<((a[1] * 8) % Half) + (a[2] \div 8192),
               ((a[2] * 8) % Half) + (a[3] \div 8192),
               ((a[3] * 8) % Half) + (a[4] \div 8192),
               (a[4] * 8) % Half>>,
     ovf |-> a[1] >= 8192]

\* u64::to_be_bytes
u64_to_be_bytes(a) ==
    <<a[1] \div 256, a[1] % 256, a[2] \div 256, a[2] % 256,
      a[3] \div 256, a[3] % 256, a[4] \div 256, a[4] % 256>>

\* ------------------------------------------------------------------------
\* sha1_smol::Sha1: new, update, digest; Sha1Digest::bytes
\* ------------------------------------------------------------------------

H0_swapped ==
    <<U32(61389, 43913), U32(26437, 8961), U32(39098, 56574),
      U32(4146, 21622), U32(50130, 57840)>>

H0 == <<U32(26437, 8961), U32(61389, 43913), U32(39098, 56574),
        U32(4146, 21622), U32(50130, 57840)>>

\* Sha1::new()
new == [h |-> H0, len |-> U64(0), buffer |-> <<>>]

RECURSIVE DrainFull_clear(_, _, _)
\* DrainFull that empties the buffer once a block has been processed
DrainFull_clear(hh, buf, n) ==
    IF Len(hh) = 5 /\ Len(buf) >= 64
    THEN DrainFull_clear(process_block(hh, SubSeq(buf, 1, 64)), <<>>, n + 1)
    ELSE [h |-> hh, buffer |-> buf, blocks |-> n]

RECURSIVE DrainFull(_, _, _)
\* while self.buffer.len() >= 64 { drain(..64); process_block }
\* n counts the process_block calls made
DrainFull(hh, buf, n) ==
    IF Len(hh) = 5 /\ Len(buf) >= 64
    THEN DrainFull(process_block(hh, SubSeq(buf, 1, 64)),
                   SubSeq(buf, 65, Len(buf)), n + 1)
    ELSE [h |-> hh, buffer |-> buf, blocks |-> n]

\* update that replaces the pending bytes by data instead of appending
update_overwrite(e, data) ==
    LET sum == AddU64(e.len, U64(Len(data)))
        d   == DrainFull(e.h, data, 0)
    IN  [h |-> d.h, len |-> sum.val, buffer |-> d.buffer,
         blocks |-> d.blocks, ovf |-> sum.ovf]

\* Sha1::update(&mut self, data).  ovf: self.len += data.len() overflowed
\* (a panic when overflow checks are compiled in, the wrapped sum otherwise;
\* on a panic the loop is not reached).
update(e, data) ==
    LET buf == e.buffer \o data
        sum == AddU64(e.len, U64(Len(data)))
        d   == DrainFull(e.h, buf, 0)
    IN  [h |-> d.h, len |-> sum.val, buffer |-> d.buffer,
         blocks |-> d.blocks, ovf |-> sum.ovf]

RECURSIVE PadZeros_short(_)
\* PadZeros that stops at 48 modulo 64
PadZeros_short(buf) ==
    IF Len(buf) % 64 # 48 THEN PadZeros_short(Append(buf, 0)) ELSE buf

RECURSIVE PadZeros(_)
\* while (self.buffer.len() % 64) != 56 { self.buffer.push(0) }
PadZeros(buf) ==
    IF Len(buf) % 64 # 56 THEN PadZeros(Append(buf, 0)) ELSE buf

RECURSIVE DrainAll(_, _, _)
\* while !self.buffer.is_empty() { drain(..64); process_block }
\* drain(..64) on a buffer shorter than 64 bytes is out of range (oob)
DrainAll(hh, buf, n) ==
    IF Len(hh) = 5 /\ Len(buf) >= 64
    THEN DrainAll(process_block(hh, SubSeq(buf, 1, 64)),
                  SubSeq(buf, 65, Len(buf)), n + 1)
    ELSE [h |-> hh, buffer |-> buf, blocks |-> n, oob |-> buf # <<>>]

\* Padded with len_bits in little-endian byte order
Padded_le(e) ==
    LET be == u64_to_be_bytes(Mul8U64(e.len).val)
    IN  PadZeros(Append(e.buffer, 128)) \o [i \in 1..8 |-> be[9 - i]]

\* the buffer digest() processes: pending bytes, 0x80, zeros, len_bits
Padded(e) ==
    PadZeros(Append(e.buffer, 128)) \o u64_to_be_bytes(Mul8U64(e.len).val)

\* Sha1::digest(mut self).  ovf: self.len * 8 overflowed
digest(e) ==
    LET d == DrainAll(e.h, Padded(e), 0)
    IN  [h |-> d.h, len |-> e.len, buffer |-> d.buffer, blocks |-> d.blocks,
         oob |-> d.oob, ovf |-> Mul8U64(e.len).ovf]

\* bytes that serializes four of the five words
bytes_short(hh) ==
    [j \in 1..16 |-> to_be_bytes(hh[((j - 1) \div 4) + 1])[((j - 1) % 4) + 1]]

\* Sha1Digest::bytes(&self): each word big-endian, in order
bytes(hh) ==
    [j \in 1..20 |-> to_be_bytes(hh[((j - 1) \div 4) + 1])[((j - 1) % 4) + 1]]

HexDigits == <<"0", "1", "2", "3", "4", "5", "6", "7",
               "8", "9", "a", "b", "c", "d", "e", "f">>

\* hex::encode: two lowercase hex digits per byte, high nibble first
hex_encode(bs) ==
    [j \in 1..(2 * Len(bs)) |->
        LET b == bs[(j + 1) \div 2]
        IN  IF j % 2 = 1 THEN HexDigits[(b \div 16) + 1]
                         ELSE HexDigits[(b % 16) + 1]]

\* results of the fallible library functions
Ok(v) == [tag |-> "Ok", val |-> v]

ErrIo(e) == [tag |-> "Err", val |-> <<"Io", e>>]

NoResult == [tag |-> "None", val |-> <<>>]

\* hash_bytes(data, Algorithm::Sha1)
hash_bytes(data) ==
    Ok(hex_encode(bytes(digest(update(new, data)).h)))

\* ------------------------------------------------------------------------
\* Algorithm: all, name, from_str; hash_bytes / hash_string for every
\* algorithm.  A string is the sequence of its characters.
\* ------------------------------------------------------------------------

\* enum Algorithm: the variants
Algorithm ==
    {"Md5", "Sha1", "Sha224", "Sha256", "Sha384", "Sha512", "Sha512_224",
     "Sha512_256", "Sha3_224", "Sha3_256", "Sha3_384", "Sha3_512",
     "Blake2b512", "Blake2s256", "Blake3", "Keccak224", "Keccak256",
     "Keccak384", "Keccak512"}

\* Algorithm::all(): the variants in the order of the vec!
all ==
    <<"Md5", "Sha1", "Sha224", "Sha256", "Sha384", "Sha512",
      "Sha512_224", "Sha512_256", "Sha3_224", "Sha3_256", "Sha3_384",
      "Sha3_512", "Blake2b512", "Blake2s256", "Blake3", "Keccak224",
      "Keccak256", "Keccak384", "Keccak512">>

\* name that gives sha512 for Sha512_256 as well
name_sha512(a) ==
    CASE a = "Md5" -> <<"m", "d", "5">>
      [] a = "Sha1" -> <<"s", "h", "a", "1">>
      [] a = "Sha224" -> <<"s", "h", "a", "2", "2", "4">>
      [] a = "Sha256" -> <<"s", "h", "a", "2", "5", "6">>
      [] a = "Sha384" -> <<"s", "h", "a", "3", "8", "4">>
      [] a = "Sha512" -> <<"s", "h", "a", "5", "1", "2">>
      [] a = "Sha512_224" -> <<"s", "h", "a", "5", "1", "2", "-", "2", "2", "4">>
      [] a = "Sha512_256" -> <<"s", "h", "a", "5", "1", "2">>
      [] a = "Sha3_224" -> <<"s", "h", "a", "3", "-", "2", "2", "4">>
      [] a = "Sha3_256" -> <<"s", "h", "a", "3", "-", "2", "5", "6">>
      [] a = "Sha3_384" -> <<"s", "h", "a", "3", "-", "3", "8", "4">>
      [] a = "Sha3_512" -> <<"s", "h", "a", "3", "-", "5", "1", "2">>
      [] a = "Blake2b512" -> <<"b", "l", "a", "k", "e", "2", "b">>
      [] a = "Blake2s256" -> <<"b", "l", "a", "k", "e", "2", "s">>
      [] a = "Blake3" -> <<"b", "l", "a", "k", "e", "3">>
      [] a = "Keccak224" -> <<"k", "e", "c", "c", "a", "k", "2", "2", "4">>
      [] a = "Keccak256" -> <<"k", "e", "c", "c", "a", "k", "2", "5", "6">>
      [] a = "Keccak384" -> <<"k", "e", "c", "c", "a", "k", "3", "8", "4">>
      [] a = "Keccak512" -> <<"k", "e", "c", "c", "a", "k", "5", "1", "2">>

\* Algorithm::name(&self)
name(a) ==
    CASE a = "Md5" -> <<"m", "d", "5">>
      [] a = "Sha1" -> <<"s", "h", "a", "1">>
      [] a = "Sha224" -> <<"s", "h", "a", "2", "2", "4">>
      [] a = "Sha256" -> <<"s", "h", "a", "2", "5", "6">>
      [] a = "Sha384" -> <<"s", "h", "a", "3", "8", "4">>
      [] a = "Sha512" -> <<"s", "h", "a", "5", "1", "2">>
      [] a = "Sha512_224" -> <<"s", "h", "a", "5", "1", "2", "-", "2", "2", "4">>
      [] a = "Sha512_256" -> <<"s", "h", "a", "5", "1", "2", "-", "2", "5", "6">>
      [] a = "Sha3_224" -> <<"s", "h", "a", "3", "-", "2", "2", "4">>
      [] a = "Sha3_256" -> <<"s", "h", "a", "3", "-", "2", "5", "6">>
      [] a = "Sha3_384" -> <<"s", "h", "a", "3", "-", "3", "8", "4">>
      [] a = "Sha3_512" -> <<"s", "h", "a", "3", "-", "5", "1", "2">>
      [] a = "Blake2b512" -> <<"b", "l", "a", "k", "e", "2", "b">>
      [] a = "Blake2s256" -> <<"b", "l", "a", "k", "e", "2", "s">>
      [] a = "Blake3" -> <<"b", "l", "a", "k", "e", "3">>
      [] a = "Keccak224" -> <<"k", "e", "c", "c", "a", "k", "2", "2", "4">>
      [] a = "Keccak256" -> <<"k", "e", "c", "c", "a", "k", "2", "5", "6">>
      [] a = "Keccak384" -> <<"k", "e", "c", "c", "a", "k", "3", "8", "4">>
      [] a = "Keccak512" -> <<"k", "e", "c", "c", "a", "k", "5", "1", "2">>

UpperLetters ==
    <<"A", "B", "C", "D", "E", "F", "G", "H", "I", "J", "K", "L", "M",
      "N", "O", "P", "Q", "R", "S", "T", "U", "V", "W", "X", "Y", "Z">>

LowerLetters ==
    <<"a", "b", "c", "d", "e", "f", "g", "h", "i", "j", "k", "l", "m",
      "n", "o", "p", "q", "r", "s", "t", "u", "v", "w", "x", "y", "z">>

\* char::to_lowercase: A-Z and, of the letters outside ASCII, the Kelvin
\* sign U+212A (written "KELVIN"), whose lowercase is the ASCII k
LowerChar(c) ==
    IF \E i \in 1..26 : UpperLetters[i] = c
    THEN LowerLetters[CHOOSE i \in 1..26 : UpperLetters[i] = c]
    ELSE IF c = "KELVIN" THEN "k" ELSE c

\* str::to_lowercase
to_lowercase(s) == [i \in 1..Len(s) |-> LowerChar(s[i])]

\* the arms of the match in from_str, in order: <<pattern, variant>>
MatchArms ==
    <<<<<<"m", "d", "5">>, "Md5">>,
      <<<<"s", "h", "a", "1">>, "Sha1">>,
      <<<<"s", "h", "a", "2", "2", "4">>, "Sha224">>,
      <<<<"s", "h", "a", "2", "5", "6">>, "Sha256">>,
      <<<<"s", "h", "a", "3", "8", "4">>, "Sha384">>,
      <<<<"s", "h", "a", "5", "1", "2">>, "Sha512">>,
      <<<<"s", "h", "a", "5", "1", "2", "-", "2", "2", "4">>, "Sha512_224">>,
      <<<<"s", "h", "a", "5", "1", "2", "_", "2", "2", "4">>, "Sha512_224">>,
      <<<<"s", "h", "a", "5", "1", "2", "-", "2", "5", "6">>, "Sha512_256">>,
      <<<<"s", "h", "a", "5", "1", "2", "_", "2", "5", "6">>, "Sha512_256">>,
      <<<<"s", "h", "a", "3", "-", "2", "2", "4">>, "Sha3_224">>,
      <<<<"s", "h", "a", "3", "_", "2", "2", "4">>, "Sha3_224">>,
      <<<<"s", "h", "a", "3", "-", "2", "5", "6">>, "Sha3_256">>,
      <<<<"s", "h", "a", "3", "_", "2", "5", "6">>, "Sha3_256">>,
      <<<<"s", "h", "a", "3", "-", "3", "8", "4">>, "Sha3_384">>,
      <<<<"s", "h", "a", "3", "_", "3", "8", "4">>, "Sha3_384">>,
      <<<<"s", "h", "a", "3", "-", "5", "1", "2">>, "Sha3_512">>,
      <<<<"s", "h", "a", "3", "_", "5", "1", "2">>, "Sha3_512">>,
      <<<<"b", "l", "a", "k", "e", "2", "b">>, "Blake2b512">>,
      <<<<"b", "l", "a", "k", "e", "2", "b", "5", "1", "2">>, "Blake2b512">>,
      <<<<"b", "l", "a", "k", "e", "2", "s">>, "Blake2s256">>,
      <<<<"b", "l", "a", "k", "e", "2", "s", "2", "5", "6">>, "Blake2s256">>,
      <<<<"b", "l", "a", "k", "e", "3">>, "Blake3">>,
      <<<<"k", "e", "c", "c", "a", "k", "2", "2", "4">>, "Keccak224">>,
      <<<<"k", "e", "c", "c", "a", "k", "2", "5", "6">>, "Keccak256">>,
      <<<<"k", "e", "c", "c", "a", "k", "3", "8", "4">>, "Keccak384">>,
      <<<<"k", "e", "c", "c", "a", "k", "5", "1", "2">>, "Keccak512">>>>

\* HashError::UnsupportedAlgorithm(s)
ErrUnsupported(s) == [tag |-> "Err", val |-> <<"UnsupportedAlgorithm", s>>]

from_str_lowered(s) ==
    LET l    == to_lowercase(s)
        hits == {i \in 1..Len(MatchArms) : MatchArms[i][1] = l}
    IN  IF hits = {} THEN ErrUnsupported(l)
        ELSE Ok(MatchArms[CHOOSE i \in hits : \A j \in hits : i <= j][2])

\* <Algorithm as FromStr>::from_str(s)
from_str(s) ==
    LET l    == to_lowercase(s)
        hits == {i \in 1..Len(MatchArms) : MatchArms[i][1] = l}
    IN  IF hits = {} THEN ErrUnsupported(s)
        ELSE Ok(MatchArms[CHOOSE i \in hits : \A j \in hits : i <= j][2])

\* number of bytes finalize() of the digest crate behind a variant returns
DigestSize(a) ==
    CASE a = "Md5" -> 16
      [] a = "Sha1" -> 20
      [] a = "Sha224" -> 28
      [] a = "Sha256" -> 32
      [] a = "Sha384" -> 48
      [] a = "Sha512" -> 64
      [] a = "Sha512_224" -> 28
      [] a = "Sha512_256" -> 32
      [] a = "Sha3_224" -> 28
      [] a = "Sha3_256" -> 32
      [] a = "Sha3_384" -> 48
      [] a = "Sha3_512" -> 64
      [] a = "Blake2b512" -> 64
      [] a = "Blake2s256" -> 32
      [] a = "Blake3" -> 32
      [] a = "Keccak224" -> 28
      [] a = "Keccak256" -> 32
      [] a = "Keccak384" -> 48
      [] a = "Keccak512" -> 64

hash_bytes_with_keccak_unsupported(data, algorithm, ext) ==
    IF algorithm = "Sha1" THEN hash_bytes(data)
    ELSE IF algorithm \in {"Keccak224", "Keccak256", "Keccak384", "Keccak512"}
         THEN ErrUnsupported(name(algorithm))
         ELSE Ok(hex_encode(ext))

\* hash_bytes(data, algorithm).  Every arm but Sha1 feeds data to a hasher
\* of another crate and hex-encodes what it returns; ext stands for those
\* bytes, DigestSize(algorithm) of them.
hash_bytes_with(data, algorithm, ext) ==
    IF algorithm = "Sha1" THEN hash_bytes(data)
    ELSE Ok(hex_encode(ext))

\* hash_string(input, algorithm), input given as its UTF-8 bytes
hash_string(input, algorithm, ext) == hash_bytes_with(input, algorithm, ext)

\* ------------------------------------------------------------------------
\* Inputs
\* ------------------------------------------------------------------------

\* longest message fed through the engine API
MaxLen == 130

\* most read calls that return data in one hash_file call
MaxReads == 3

\* longest message fed to each engine of a pair
MaxPairLen == 84

\* most bulk feeds made to the length counter
MaxBulkFeeds == 4

\* capacity of the BufReader and size of the read buffer in hash_file
BufSize == 8192

Pat(n) == [i \in 1..n |-> (i * 37 + 11) % 256]

Pat2(n) == [i \in 1..n |-> (i * 101 + 200) % 256]

Abc == <<97, 98, 99>>

\* messages whose prefixes are fed to an engine by update calls
Messages == {Abc, Pat(MaxLen)}

\* lengths of the data passed to one update call
ChunkLens == {0, 1, 3, 55, 56, 64, 65, 128}

\* contents of the files hash_file is called on
FileLens == {0, 56, 64, 119, BufSize + 1}

Files == {Abc} \cup {Pat(n) : n \in FileLens}

\* byte counts a read may return short of filling the buffer
ShortReads == {1, 64}

OpenErrors == {"NotFound", "PermissionDenied"}

ReadErrors == {"Interrupted", "Other"}

\* messages and update lengths of the two-engine specification
PairMessages == {Pat(MaxPairLen), Pat2(MaxPairLen)}

PairChunkLens == {0, 20, 64}

\* data lengths (u64) of the bulk feeds of the length-counter specification:
\* 1, 2^16, 2^32, 2^60, 2^61 - 1 and isize::MAX = 2^63 - 1
BulkLens == {<<0, 0, 0, 1>>, <<0, 0, 1, 0>>, <<0, 1, 0, 0>>, <<4096, 0, 0, 0>>,
             <<8191, 65535, 65535, 65535>>, <<32767, 65535, 65535, 65535>>}

\* char::to_uppercase on the characters of the accepted names
UpperChar(c) ==
    IF \E i \in 1..26 : LowerLetters[i] = c
    THEN UpperLetters[CHOOSE i \in 1..26 : LowerLetters[i] = c]
    ELSE c

\* str::to_uppercase
to_uppercase(s) == [i \in 1..Len(s) |-> UpperChar(s[i])]

\* s with its first character in upper case
Capitalized(s) == [i \in 1..Len(s) |-> IF i = 1 THEN UpperChar(s[i]) ELSE s[i]]

\* strings that are no algorithm name in any letter case
InvalidNames ==
    {<<"i", "n", "v", "a", "l", "i", "d", "_", "a", "l", "g", "o">>,
     <<>>,
     <<"s", "h", "a", "-", "2", "5", "6">>,
     <<"s", "h", "a", "2", "5", "6", " ">>,
     <<"M", "d", "6">>,
     <<"s", "h", "a", "3", "2", "5", "6">>,
     <<"B", "L", "A", "K", "E", "2", "B", "-", "5", "1", "2">>,
     <<"k", "e", "c", "c", "a", "k", "_", "2", "5", "6">>,
     <<"s", "h", "a", "5", "1", "2", "/", "2", "5", "6">>,
     <<"S", "H", "A", "_", "1">>}

\* cli.algorithm: every pattern of from_str in lower case, in upper case and
\* capitalized, keccak256 written with the Kelvin sign, and the invalid names
ParseInputs ==
    UNION {{MatchArms[i][1], to_uppercase(MatchArms[i][1]),
            Capitalized(MatchArms[i][1])} : i \in 1..Len(MatchArms)}
    \cup {<<"KELVIN", "e", "c", "c", "a", "k", "2", "5", "6">>}
    \cup InvalidNames

\* cli.input as UTF-8 bytes: "", "abc" and a 56-byte string
StringInputs == {<<>>, Abc, [i \in 1..56 |-> 97 + (i % 26)]}

\* byte values the digests of the other crates are filled with
ExtFills == {0, 171, 255}

\* longest message of the block-by-block sessions
MaxStepLen == 192

StepMessages == {Pat(MaxStepLen)}

\* data.len() of the update calls of the block-by-block sessions
StepChunkLens == {0, 1, 55, 56, 64, 120, 128}

Min(a, b) == IF a <= b THEN a ELSE b

\* ------------------------------------------------------------------------
\* State
\* ------------------------------------------------------------------------
VARIABLES
    pc,       \* "idle", "live" (engine owned by an API caller), "moved"
              \* (engine consumed by digest), "reading" (inside hash_file's
              \* loop), "returned" (hash_bytes / hash_file returned),
              \* "panicked"; "counting" / "finalized" in SpecLen
    msg,      \* the caller's input: message, data slice or file content
    pos,      \* number of bytes of msg fed to the engine so far
    h,        \* self.h
    len,      \* self.len
    buffer,   \* self.buffer
    out,      \* Sha1Digest.h returned by digest, <<>> before
    ret,      \* value returned by hash_bytes / hash_file
    reads,    \* number of reader.read calls made by hash_file
    raised,   \* the io::Error the file system raised, "none" before
    digests,  \* number of digest calls made on the engine
    nblocks,  \* number of process_block calls made on the engine
    pcB, msgB, posB, hB, lenB, bufferB, outB,
              \* a second, independently owned engine (SpecPair)
    total,    \* bytes fed in SpecLen, unbounded: five 16-bit limbs
    feeds,    \* number of bulk feeds made in SpecLen
    lenField, \* the 8 length bytes digest appends (SpecLen), <<>> before
    algName,  \* cli.algorithm: the algorithm name typed by the user (SpecCli)
    parsed    \* value returned by Algorithm::from_str, NoResult before

engineVars == <<pc, msg, pos, h, len, buffer, out, digests, nblocks>>

fileVars == <<ret, reads, raised>>

pairVars == <<pcB, msgB, posB, hB, lenB, bufferB, outB>>

lenVars == <<total, feeds, lenField>>

cliVars == <<algName, parsed>>

vars == <<engineVars, fileVars, pairVars, lenVars, cliVars>>

engine == [h |-> h, len |-> len, buffer |-> buffer]

engineB == [h |-> hB, len |-> lenB, buffer |-> bufferB]

\* the bytes fed so far
fed == SubSeq(msg, 1, pos)

fedB == SubSeq(msgB, 1, posB)

InitB ==
    /\ pcB = "idle"
    /\ msgB = <<>>
    /\ posB = 0
    /\ hB = new.h
    /\ lenB = new.len
    /\ bufferB = new.buffer
    /\ outB = <<>>

InitLenVars ==
    /\ total = <<0, 0, 0, 0, 0>>
    /\ feeds = 0
    /\ lenField = <<>>

InitCliVars ==
    /\ algName = <<>>
    /\ parsed = NoResult

Init ==
    /\ pc = "idle"
    /\ msg = <<>>
    /\ pos = 0
    /\ h = new.h
    /\ len = new.len
    /\ buffer = new.buffer
    /\ out = <<>>
    /\ ret = NoResult
    /\ reads = 0
    /\ raised = "none"
    /\ digests = 0
    /\ nblocks = 0
    /\ InitB
    /\ InitLenVars
    /\ InitCliVars

\* the engine fields after an update / digest outcome r
SetEngine(r) ==
    /\ h' = r.h
    /\ len' = r.len
    /\ buffer' = r.buffer
    /\ nblocks' = nblocks + r.blocks

\* let mut hasher = Sha1::new(), by a caller that holds message m
ApiNew(m) ==
    /\ pc = "idle"
    /\ pc' = "live"
    /\ msg' = m
    /\ h' = new.h
    /\ len' = new.len
    /\ buffer' = new.buffer
    /\ UNCHANGED <<pos, out, digests, nblocks, fileVars, pairVars, cliVars, lenVars>>

\* ApiUpdate callable on an engine that digest has consumed
ApiUpdate_unguarded(n) ==
    /\ pc \in {"live", "moved"}
    /\ pos + n <= Len(msg)
    /\ \E r \in {update(engine, SubSeq(msg, pos + 1, pos + n))} :
           /\ SetEngine(r)
           /\ pc' \in IF r.ovf THEN {pc, "panicked"} ELSE {pc}
    /\ pos' = pos + n
    /\ UNCHANGED <<msg, out, digests, fileVars, pairVars, cliVars, lenVars>>

\* hasher.update(&msg[pos..pos + n]); needs a live (not moved) engine
ApiUpdate(n) ==
    /\ pc = "live"
    /\ pos + n <= Len(msg)
    /\ \E r \in {update(engine, SubSeq(msg, pos + 1, pos + n))} :
           /\ SetEngine(r)
           /\ pc' \in IF r.ovf THEN {"live", "panicked"} ELSE {"live"}
    /\ pos' = pos + n
    /\ UNCHANGED <<msg, out, digests, fileVars, pairVars, cliVars, lenVars>>

\* ApiDigest through a borrow: the engine stays usable afterwards
ApiDigest_borrowed ==
    /\ pc = "live"
    /\ \E r \in {digest(engine)} :
           /\ SetEngine(r)
           /\ \/ /\ ~r.oob
                 /\ pc' = "live"
                 /\ out' = r.h
              \/ /\ r.oob \/ r.ovf
                 /\ pc' = "panicked"
                 /\ out' = out
    /\ digests' = digests + 1
    /\ UNCHANGED <<msg, pos, fileVars, pairVars, cliVars, lenVars>>

\* hasher.digest(): takes the engine by value
ApiDigest ==
    /\ pc = "live"
    /\ \E r \in {digest(engine)} :
           /\ SetEngine(r)
           /\ \/ /\ ~r.oob
                 /\ pc' = "moved"
                 /\ out' = r.h
              \/ /\ r.oob \/ r.ovf
                 /\ pc' = "panicked"
                 /\ out' = out
    /\ digests' = digests + 1
    /\ UNCHANGED <<msg, pos, fileVars, pairVars, cliVars, lenVars>>

\* hash_bytes(data, Algorithm::Sha1): new, one update, digest, bytes, hex
HashBytes(data) ==
    /\ pc = "idle"
    /\ msg' = data
    /\ pos' = Len(data)
    /\ \E u \in {update(new, data)} : \E r \in {digest(u)} :
           /\ h' = r.h
           /\ len' = r.len
           /\ buffer' = r.buffer
           /\ nblocks' = u.blocks + r.blocks
           /\ \/ /\ ~r.oob
                 /\ pc' = "returned"
                 /\ out' = r.h
                 /\ ret' = Ok(hex_encode(bytes(r.h)))
              \/ /\ r.oob \/ r.ovf \/ u.ovf
                 /\ pc' = "panicked"
                 /\ UNCHANGED <<out, ret>>
    /\ digests' = 1
    /\ UNCHANGED <<reads, raised, pairVars, cliVars, lenVars>>

\* hash_file: File::open(path)? succeeds on a file with content f;
\* reader and buffer are set up and the Sha1 arm creates its engine
HashFileOpen(f) ==
    /\ pc = "idle"
    /\ pc' = "reading"
    /\ msg' = f
    /\ h' = new.h
    /\ len' = new.len
    /\ buffer' = new.buffer
    /\ UNCHANGED <<pos, out, digests, nblocks, fileVars, pairVars, cliVars, lenVars>>

\* hash_file: File::open(path)? fails with e
HashFileOpenFails(e) ==
    /\ pc = "idle"
    /\ pc' = "returned"
    /\ raised' = e
    /\ ret' = ErrIo(e)
    /\ UNCHANGED <<msg, pos, h, len, buffer, out, digests, nblocks, reads,
                   pairVars, cliVars, lenVars>>

\* the counts reader.read(&mut buffer) may return with rem bytes left
ReadCounts(rem) ==
    {Min(rem, BufSize)} \cup {c \in ShortReads : c < rem}

\* HashFileRead that takes a read shorter than the buffer for the last one:
\* it feeds the chunk, leaves the loop and returns the digest
HashFileRead_short_ends(count) ==
    /\ pc = "reading"
    /\ reads < MaxReads
    /\ pos < Len(msg)
    /\ count \in ReadCounts(Len(msg) - pos)
    /\ \E u \in {update(engine, SubSeq(msg, pos + 1, pos + count))} :
           IF count < BufSize
           THEN \E r \in {digest(u)} :
                    /\ h' = r.h
                    /\ len' = r.len
                    /\ buffer' = r.buffer
                    /\ nblocks' = nblocks + u.blocks + r.blocks
                    /\ pc' = "returned"
                    /\ out' = r.h
                    /\ ret' = Ok(hex_encode(bytes(r.h)))
                    /\ digests' = digests + 1
           ELSE /\ SetEngine(u)
                /\ pc' = "reading"
                /\ UNCHANGED <<out, ret, digests>>
    /\ pos' = pos + count
    /\ reads' = reads + 1
    /\ UNCHANGED <<msg, raised, pairVars, cliVars, lenVars>>

\* one loop iteration: read returns count > 0, hasher.update(&buffer[..count])
HashFileRead(count) ==
    /\ pc = "reading"
    /\ reads < MaxReads
    /\ pos < Len(msg)
    /\ count \in ReadCounts(Len(msg) - pos)
    /\ \E r \in {update(engine, SubSeq(msg, pos + 1, pos + count))} :
           /\ SetEngine(r)
           /\ pc' \in IF r.ovf THEN {"reading", "panicked"} ELSE {"reading"}
    /\ pos' = pos + count
    /\ reads' = reads + 1
    /\ UNCHANGED <<msg, out, digests, ret, raised, pairVars, cliVars, lenVars>>

\* read returns 0 at end of file: break, digest, bytes, hex, Ok(digest)
HashFileEof ==
    /\ pc = "reading"
    /\ pos = Len(msg)
    /\ \E r \in {digest(engine)} :
           /\ SetEngine(r)
           /\ \/ /\ ~r.oob
                 /\ pc' = "returned"
                 /\ out' = r.h
                 /\ ret' = Ok(hex_encode(bytes(r.h)))
              \/ /\ r.oob \/ r.ovf
                 /\ pc' = "panicked"
                 /\ UNCHANGED <<out, ret>>
    /\ reads' = reads + 1
    /\ digests' = digests + 1
    /\ UNCHANGED <<msg, pos, raised, pairVars, cliVars, lenVars>>

\* HashFileReadFails that goes round the loop again on an interrupted read
HashFileReadFails_retry(e) ==
    /\ pc = "reading"
    /\ pc' = IF e = "Interrupted" THEN "reading" ELSE "returned"
    /\ raised' = e
    /\ ret' = IF e = "Interrupted" THEN ret ELSE ErrIo(e)
    /\ reads' = reads + 1
    /\ UNCHANGED <<msg, pos, h, len, buffer, out, digests, nblocks,
                   pairVars, cliVars, lenVars>>

\* read fails with e: the ? operator returns Err(HashError::Io(e))
HashFileReadFails(e) ==
    /\ pc = "reading"
    /\ pc' = "returned"
    /\ raised' = e
    /\ ret' = ErrIo(e)
    /\ reads' = reads + 1
    /\ UNCHANGED <<msg, pos, h, len, buffer, out, digests, nblocks,
                   pairVars, cliVars, lenVars>>

\* the read counts tried: every count some ReadCounts(rem) contains
AllReadCounts == ShortReads \cup {BufSize} \cup {Len(f) : f \in Files}

Next ==
    \/ \E m \in Messages : ApiNew(m)
    \/ \E n \in ChunkLens : ApiUpdate(n)
    \/ ApiDigest
    \/ \E d \in Files : HashBytes(d)
    \/ \E f \in Files : HashFileOpen(f)
    \/ \E e \in OpenErrors : HashFileOpenFails(e)
    \/ \E c \in AllReadCounts : HashFileRead(c)
    \/ HashFileEof
    \/ \E e \in ReadErrors : HashFileReadFails(e)

Spec == Init /\ [][Next]_vars

\* ------------------------------------------------------------------------
\* Two independently owned engines (SpecPair)
\* ------------------------------------------------------------------------

\* BUpdate on an engine whose pending bytes live in the buffer of the
\* first engine (one buffer shared by both instances)
BUpdate_shared(n) ==
    /\ pcB = "live"
    /\ posB + n <= Len(msgB)
    /\ \E r \in {update([h |-> hB, len |-> lenB, buffer |-> buffer],
                        SubSeq(msgB, posB + 1, posB + n))} :
           /\ hB' = r.h
           /\ lenB' = r.len
           /\ bufferB' = r.buffer
           /\ buffer' = r.buffer
           /\ pcB' \in IF r.ovf THEN {"live", "panicked"} ELSE {"live"}
    /\ posB' = posB + n
    /\ UNCHANGED <<msgB, outB, pc, msg, pos, h, len, out, digests, nblocks,
                   fileVars, lenVars, cliVars>>

\* hasherB.update(&msgB[posB..posB + n])
BUpdate(n) ==
    /\ pcB = "live"
    /\ posB + n <= Len(msgB)
    /\ \E r \in {update(engineB, SubSeq(msgB, posB + 1, posB + n))} :
           /\ hB' = r.h
           /\ lenB' = r.len
           /\ bufferB' = r.buffer
           /\ pcB' \in IF r.ovf THEN {"live", "panicked"} ELSE {"live"}
    /\ posB' = posB + n
    /\ UNCHANGED <<msgB, outB, engineVars, fileVars, lenVars, cliVars>>

\* hasherB.digest()
BDigest ==
    /\ pcB = "live"
    /\ \E r \in {digest(engineB)} :
           /\ hB' = r.h
           /\ lenB' = r.len
           /\ bufferB' = r.buffer
           /\ \/ /\ ~r.oob
                 /\ pcB' = "moved"
                 /\ outB' = r.h
              \/ /\ r.oob \/ r.ovf
                 /\ pcB' = "panicked"
                 /\ outB' = outB
    /\ UNCHANGED <<msgB, posB, engineVars, fileVars, lenVars, cliVars>>

\* both engines just created, each caller holding its own message
InitPair ==
    /\ pc = "live"
    /\ msg \in PairMessages
    /\ pos = 0
    /\ h = new.h
    /\ len = new.len
    /\ buffer = new.buffer
    /\ out = <<>>
    /\ ret = NoResult
    /\ reads = 0
    /\ raised = "none"
    /\ digests = 0
    /\ nblocks = 0
    /\ pcB = "live"
    /\ msgB \in PairMessages
    /\ posB = 0
    /\ hB = new.h
    /\ lenB = new.len
    /\ bufferB = new.buffer
    /\ outB = <<>>
    /\ InitLenVars
    /\ InitCliVars

NextPair ==
    \/ \E n \in PairChunkLens : ApiUpdate(n)
    \/ ApiDigest
    \/ \E n \in PairChunkLens : BUpdate(n)
    \/ BDigest

SpecPair == InitPair /\ [][NextPair]_vars

\* ------------------------------------------------------------------------
\* The length counter under bulk feeds (SpecLen): self.len and len_bits
\* for totals no byte sequence of the other specifications reaches.  Only
\* the lengths of the data are tracked; h and buffer are not.
\* ------------------------------------------------------------------------

\* t + n for an unbounded total t (five limbs) and a u64 n
AddTotal(t, n) ==
    LET s0 == t[5] + n[4]
        s1 == t[4] + n[3] + (s0 \div Half)
        s2 == t[3] + n[2] + (s1 \div Half)
        s3 == t[2] + n[1] + (s2 \div Half)
        s4 == t[1] + (s3 \div Half)
    IN  <<s4, s3 % Half, s2 % Half, s1 % Half, s0 % Half>>

\* t mod 2^64
Low64(t) == <<t[2], t[3], t[4], t[5]>>

\* (t * 8) mod 2^64, on the unbounded total
Times8Low64(t) ==
    <<((t[2] % 8192) * 8) + (t[3] \div 8192),
      ((t[3] % 8192) * 8) + (t[4] \div 8192),
      ((t[4] % 8192) * 8) + (t[5] \div 8192),
      (t[5] % 8192) * 8>>

\* update(data) with data.len() = n: self.len += n (line 434)
FeedBulk(n) ==
    /\ pc = "counting"
    /\ feeds < MaxBulkFeeds
    /\ \E s \in {AddU64(len, n)} :
           \/ /\ pc' = "counting"
              /\ len' = s.val
           \/ /\ s.ovf
              /\ pc' = "panicked"
              /\ len' = len
    /\ total' = AddTotal(total, n)
    /\ feeds' = feeds + 1
    /\ UNCHANGED <<msg, pos, h, buffer, out, digests, nblocks, lenField,
                   fileVars, pairVars, cliVars>>

\* digest(): len_bits = self.len * 8 (line 494), len_bits.to_be_bytes()
FinishBulk ==
    /\ pc = "counting"
    /\ \E m \in {Mul8U64(len)} :
           \/ /\ pc' = "finalized"
              /\ lenField' = u64_to_be_bytes(m.val)
           \/ /\ m.ovf
              /\ pc' = "panicked"
              /\ lenField' = lenField
    /\ digests' = digests + 1
    /\ UNCHANGED <<msg, pos, h, len, buffer, out, nblocks, total, feeds,
                   fileVars, pairVars, cliVars>>

InitLen ==
    /\ pc = "counting"
    /\ msg = <<>>
    /\ pos = 0
    /\ h = new.h
    /\ len = new.len
    /\ buffer = new.buffer
    /\ out = <<>>
    /\ ret = NoResult
    /\ reads = 0
    /\ raised = "none"
    /\ digests = 0
    /\ nblocks = 0
    /\ InitB
    /\ InitLenVars
    /\ InitCliVars

NextLen ==
    \/ \E n \in BulkLens : FeedBulk(n)
    \/ FinishBulk

SpecLen == InitLen /\ [][NextLen]_vars

\* ------------------------------------------------------------------------
\* hash -s INPUT -a NAME (process_single_algorithm): the name is parsed by
\* Algorithm::from_str, then the input string is hashed by hash_string
\* ------------------------------------------------------------------------

\* let algorithm = Algorithm::from_str(&cli.algorithm) ... ?
FromStr ==
    /\ pc = "idle"
    /\ parsed' = from_str(algName)
    /\ pc' = IF from_str(algName).tag = "Ok" THEN "parsed" ELSE "returned"
    /\ UNCHANGED <<msg, pos, h, len, buffer, out, digests, nblocks,
                   fileVars, pairVars, lenVars, algName>>

\* compute_hash(&cli.input, algorithm, true): hash_string(input, algorithm)
ComputeHash(ext) ==
    /\ pc = "parsed"
    /\ Len(ext) = DigestSize(parsed.val)
    /\ ret' = hash_string(msg, parsed.val, ext)
    /\ pc' = "returned"
    /\ UNCHANGED <<msg, pos, h, len, buffer, out, digests, nblocks,
                   reads, raised, pairVars, lenVars, cliVars>>

\* the bytes a hasher of another crate may return for a variant
ExtDigests ==
    {[i \in 1..DigestSize(all[k]) |-> f] : k \in 1..Len(all), f \in ExtFills}

InitCli ==
    /\ pc = "idle"
    /\ msg \in StringInputs
    /\ pos = 0
    /\ h = new.h
    /\ len = new.len
    /\ buffer = new.buffer
    /\ out = <<>>
    /\ ret = NoResult
    /\ reads = 0
    /\ raised = "none"
    /\ digests = 0
    /\ nblocks = 0
    /\ InitB
    /\ InitLenVars
    /\ algName \in ParseInputs
    /\ parsed = NoResult

NextCli ==
    \/ FromStr
    \/ \E ext \in ExtDigests : ComputeHash(ext)

SpecCli == InitCli /\ [][NextCli]_vars

\* ------------------------------------------------------------------------
\* The same session with update and digest taken one loop iteration at a
\* time: pc is "draining" inside the while loop of update and "finishing"
\* inside the while loop of digest
\* ------------------------------------------------------------------------

\* UpdateExtend that counts only the bytes of the blocks the call will drain
UpdateExtend_per_block(n) ==
    /\ pc = "live"
    /\ pos + n <= Len(msg)
    /\ buffer' = buffer \o SubSeq(msg, pos + 1, pos + n)
    /\ len' = AddU64(len, U64(64 * ((Len(buffer) + n) \div 64))).val
    /\ pos' = pos + n
    /\ pc' = "draining"
    /\ UNCHANGED <<msg, h, out, digests, nblocks, fileVars, pairVars, lenVars,
                   cliVars>>

\* UpdateExtend that puts the data in front of the pending bytes
UpdateExtend_prepend(n) ==
    /\ pc = "live"
    /\ pos + n <= Len(msg)
    /\ buffer' = SubSeq(msg, pos + 1, pos + n) \o buffer
    /\ \E sum \in {AddU64(len, U64(n))} :
           /\ len' = sum.val
           /\ pc' \in IF sum.ovf THEN {"draining", "panicked"}
                                 ELSE {"draining"}
    /\ pos' = pos + n
    /\ UNCHANGED <<msg, h, out, digests, nblocks, fileVars, pairVars, lenVars,
                   cliVars>>

\* update: self.buffer.extend_from_slice(data); self.len += data.len() as u64
UpdateExtend(n) ==
    /\ pc = "live"
    /\ pos + n <= Len(msg)
    /\ buffer' = buffer \o SubSeq(msg, pos + 1, pos + n)
    /\ \E sum \in {AddU64(len, U64(n))} :
           /\ len' = sum.val
           /\ pc' \in IF sum.ovf THEN {"draining", "panicked"}
                                 ELSE {"draining"}
    /\ pos' = pos + n
    /\ UNCHANGED <<msg, h, out, digests, nblocks, fileVars, pairVars, lenVars,
                   cliVars>>

\* UpdateDrain that also takes a last, shorter chunk and fills it with zeros
UpdateDrain_partial ==
    /\ pc = "draining"
    /\ Len(buffer) > 0
    /\ h' = process_block(h, SubSeq(buffer \o [i \in 1..64 |-> 0], 1, 64))
    /\ buffer' = SubSeq(buffer, 65, Len(buffer))
    /\ nblocks' = nblocks + 1
    /\ UNCHANGED <<pc, msg, pos, len, out, digests, fileVars, pairVars,
                   lenVars, cliVars>>

\* update, one iteration of while self.buffer.len() >= 64:
\* chunk = self.buffer.drain(..64).collect(); self.process_block(&chunk)
UpdateDrain ==
    /\ pc = "draining"
    /\ Len(buffer) >= 64
    /\ h' = process_block(h, SubSeq(buffer, 1, 64))
    /\ buffer' = SubSeq(buffer, 65, Len(buffer))
    /\ nblocks' = nblocks + 1
    /\ UNCHANGED <<pc, msg, pos, len, out, digests, fileVars, pairVars,
                   lenVars, cliVars>>

\* UpdateReturn that leaves the loop after the first iteration
UpdateReturn_early ==
    /\ pc = "draining"
    /\ Len(buffer) < 128
    /\ pc' = "live"
    /\ UNCHANGED <<msg, pos, h, len, buffer, out, digests, nblocks, fileVars,
                   pairVars, lenVars, cliVars>>

\* update: the loop condition self.buffer.len() >= 64 is false, update
\* returns
UpdateReturn ==
    /\ pc = "draining"
    /\ Len(buffer) < 64
    /\ pc' = "live"
    /\ UNCHANGED <<msg, pos, h, len, buffer, out, digests, nblocks, fileVars,
                   pairVars, lenVars, cliVars>>

\* digest: len_bits, push(0x80), zero padding, extend by len_bits
DigestPad ==
    /\ pc = "live"
    /\ buffer' = Padded(engine)
    /\ pc' \in IF Mul8U64(len).ovf THEN {"finishing", "panicked"}
                                   ELSE {"finishing"}
    /\ UNCHANGED <<msg, pos, h, len, out, digests, nblocks, fileVars,
                   pairVars, lenVars, cliVars>>

\* digest, one iteration of while !self.buffer.is_empty():
\* chunk = self.buffer.drain(..64).collect(); self.process_block(&chunk);
\* drain(..64) panics when fewer than 64 bytes are left
DigestDrain ==
    /\ pc = "finishing"
    /\ buffer # <<>>
    /\ IF Len(buffer) >= 64
       THEN /\ h' = process_block(h, SubSeq(buffer, 1, 64))
            /\ buffer' = SubSeq(buffer, 65, Len(buffer))
            /\ nblocks' = nblocks + 1
            /\ pc' = pc
       ELSE /\ pc' = "panicked"
            /\ UNCHANGED <<h, buffer, nblocks>>
    /\ UNCHANGED <<msg, pos, len, out, digests, fileVars, pairVars, lenVars,
                   cliVars>>

\* digest: the buffer is empty, Sha1Digest { h: self.h } is returned and the
\* engine is gone
DigestReturn ==
    /\ pc = "finishing"
    /\ buffer = <<>>
    /\ out' = h
    /\ pc' = "moved"
    /\ digests' = digests + 1
    /\ UNCHANGED <<msg, pos, h, len, buffer, nblocks, fileVars, pairVars,
                   lenVars, cliVars>>

NextStep ==
    \/ \E m \in StepMessages : ApiNew(m)
    \/ \E n \in StepChunkLens : UpdateExtend(n)
    \/ UpdateDrain
    \/ UpdateReturn
    \/ DigestPad
    \/ DigestDrain
    \/ DigestReturn

SpecStep == Init /\ [][NextStep]_vars

\* ------------------------------------------------------------------------
\* Known answers
\* ------------------------------------------------------------------------

EmptyHex ==
    <<"d", "a", "3", "9", "a", "3", "e", "e", "5", "e", "6", "b", "4",
    "b", "0", "d", "3", "2", "5", "5", "b", "f", "e", "f", "9", "5", "6",
    "0", "1", "8", "9", "0", "a", "f", "d", "8", "0", "7", "0", "9">>

AbcHex ==
    <<"a", "9", "9", "9", "3", "e", "3", "6", "4", "7", "0", "6", "8",
    "1", "6", "a", "b", "a", "3", "e", "2", "5", "7", "1", "7", "8", "5",
    "0", "c", "2", "6", "c", "9", "c", "d", "0", "d", "8", "9", "d">>

LowerHex == {"0", "1", "2", "3", "4", "5", "6", "7", "8", "9",
             "a", "b", "c", "d", "e", "f"}

\* ------------------------------------------------------------------------
\* Properties
\* ------------------------------------------------------------------------

\* C1: chunk-invariance.  Whatever sequence of update calls (empty pieces
\* included) fed the bytes `fed` to an engine, digest returns the same 20
\* bytes as new(); update(fed); digest().
ChunkInvariance ==
    pc = "moved" => bytes(out) = bytes(digest(update(new, fed)).h)

\* a digest taken after 120 bytes, a length no single update call feeds
ChunkInvarianceWitness ==
    /\ pc = "moved"
    /\ pos = 120
    /\ pos \notin ChunkLens
    /\ nblocks = 3

\* C2: known answers.  The empty input hashes to da39a3ee... and "abc" to
\* a9993e36..., through hash_bytes, hash_file and new/update/digest/bytes.
KnownAnswers ==
    /\ (pc = "returned" /\ ret.tag = "Ok" /\ msg = <<>>) => ret.val = EmptyHex
    /\ (pc = "returned" /\ ret.tag = "Ok" /\ msg = Abc) => ret.val = AbcHex
    /\ (pc = "moved" /\ pos = 0) => hex_encode(bytes(out)) = EmptyHex
    /\ (pc = "moved" /\ fed = Abc) => hex_encode(bytes(out)) = AbcHex

\* hash_bytes("abc") has returned
KnownAnswersWitness ==
    /\ pc = "returned"
    /\ reads = 0
    /\ msg = Abc
    /\ ret.tag = "Ok"

DigestShape ==
    (pc = "returned" /\ ret.tag = "Ok")
        => /\ Len(bytes(out)) = 20
           /\ \A j \in 1..20 : bytes(out)[j] \in 0..255
           /\ Len(ret.val) = 40
           /\ \A j \in 1..Len(ret.val) : ret.val[j] \in LowerHex

\* a digest string returned for the input of length zero
DigestShapeWitness ==
    /\ pc = "returned"
    /\ ret.tag = "Ok"
    /\ Len(msg) = 0
    /\ Len(ret.val) = 40

\* C5: the engine has no failure modes: no sequence of update calls
\* followed by digest ends in a panic.
NoFailureModes == pc # "panicked"

\* C6: the byte counter and len * 8 wrap modulo 2^64: the counter is the
\* number of bytes fed mod 2^64, and digest neither crashes nor encodes
\* anything but (bytes fed * 8) mod 2^64 in the padding.
LengthWraps ==
    pc \in {"counting", "finalized", "panicked"}
        => /\ pc # "panicked"
           /\ len = Low64(total)
           /\ pc = "finalized" =>
                  lenField = u64_to_be_bytes(Times8Low64(total))

\* C7: single use.  On one engine digest occurs at most once, and after it
\* no update or digest touches the engine.
SingleUse ==
    /\ [](digests <= 1)
    /\ [][digests >= 1 =>
             UNCHANGED <<h, len, buffer, pos, nblocks, digests, out>>]_vars

\* an engine consumed by digest while its caller still has bytes to feed
SingleUseWitness ==
    /\ pc = "moved"
    /\ digests = 1
    /\ pos = 64
    /\ pos < Len(msg)

\* C8 as stated: update on an engine that digest has consumed is not
\* rejected.
ReuseNotRejected ==
    pc = "moved" => ENABLED (\E n \in ChunkLens : ApiUpdate(n))

\* C8 amended: digest takes the engine by value, so neither update nor a
\* second digest can be invoked on it afterwards.
ReuseRejected ==
    pc = "moved" => /\ ~ENABLED (\E n \in ChunkLens : ApiUpdate(n))
                    /\ ~ENABLED ApiDigest

\* a consumed engine whose caller has fed nothing of a non-empty message
ReuseRejectedWitness ==
    /\ pc = "moved"
    /\ pos = 0
    /\ Len(msg) = MaxLen
    /\ out # <<>>

IoErrorsPropagate ==
    /\ [](raised # "none" =>
             /\ pc = "returned"
             /\ ret = ErrIo(raised)
             /\ digests = 0
             /\ out = <<>>
             /\ raised \in OpenErrors => reads = 0)
    /\ [][raised # "none" => reads' = reads /\ ret' = ret]_vars

\* a read interrupted after chunks that filled at least one block
IoErrorsPropagateWitness ==
    /\ raised = "Interrupted"
    /\ pos > 64
    /\ nblocks >= 1
    /\ pc = "returned"

\* C11: independent engines do not interfere.  Under any interleaving of
\* the calls on two engines, each engine holds what its own bytes alone
\* produce, each digest is the digest of that engine's own bytes, and a
\* call on one engine leaves h, len and buffer of the other unchanged.
NonInterference ==
    /\ [](pc = "live" =>
             /\ len = U64(pos)
             /\ buffer = SubSeq(msg, pos - (pos % 64) + 1, pos)
             /\ h = DrainFull(new.h, fed, 0).h)
    /\ [](pcB = "live" =>
             /\ lenB = U64(posB)
             /\ bufferB = SubSeq(msgB, posB - (posB % 64) + 1, posB)
             /\ hB = DrainFull(new.h, fedB, 0).h)
    /\ [](pc = "moved" => out = digest(update(new, fed)).h)
    /\ [](pcB = "moved" => outB = digest(update(new, fedB)).h)
    /\ [][<<h, len, buffer>>' # <<h, len, buffer>>
             => UNCHANGED <<hB, lenB, bufferB, posB, outB>>]_vars
    /\ [][<<hB, lenB, bufferB>>' # <<hB, lenB, bufferB>>
             => UNCHANGED <<h, len, buffer, pos, out>>]_vars

\* two engines finalized on different messages after different feeds
NonInterferenceWitness ==
    /\ pc = "moved"
    /\ pcB = "moved"
    /\ msg # msgB
    /\ pos = 84
    /\ posB = 64

\* ------------------------------------------------------------------------
\* Algorithm names
\* ------------------------------------------------------------------------

Underscored(s) == [i \in 1..Len(s) |-> IF s[i] = "-" THEN "_" ELSE s[i]]

Blake2bLong == <<"b", "l", "a", "k", "e", "2", "b", "5", "1", "2">>

Blake2sLong == <<"b", "l", "a", "k", "e", "2", "s", "2", "5", "6">>

\* the lower-case spellings of a variant: its name, the name with the hyphen
\* written as an underscore, and blake2b512 / blake2s256
Spellings(a) ==
    {name(a), Underscored(name(a))}
    \cup (IF a = "Blake2b512" THEN {Blake2bLong} ELSE {})
    \cup (IF a = "Blake2s256" THEN {Blake2sLong} ELSE {})

\* C12: once Algorithm::from_str has returned, the result is Ok(a) exactly
\* when the input, lower-cased, is one of the spellings of a (so the letter
\* case of the input does not matter, and the hyphen spelling, the underscore
\* spelling and the blake2b512 / blake2s256 spelling give the same variant);
\* for every other input it is Err(UnsupportedAlgorithm) carrying the input
\* as it was typed, not lower-cased.
NameParsing ==
    parsed.tag # "None" =>
        /\ \A k \in 1..Len(all) :
               to_lowercase(algName) \in Spellings(all[k])
                   => parsed.tag = "Ok" /\ parsed.val = all[k]
        /\ (\A k \in 1..Len(all) :
                to_lowercase(algName) \notin Spellings(all[k]))
               => /\ parsed.tag = "Err"
                  /\ parsed.val = <<"UnsupportedAlgorithm", algName>>

\* a name that is not accepted and differs from its lower-case form was
\* rejected
NameParsingWitness ==
    /\ pc = "returned"
    /\ parsed.tag = "Err"
    /\ algName = <<"B", "L", "A", "K", "E", "2", "B", "-", "5", "1", "2">>

\* ------------------------------------------------------------------------
\* hash_string over every algorithm
\* ------------------------------------------------------------------------

HexChars == LowerHex \cup {"A", "B", "C", "D", "E", "F"}

\* C13: hash_string never returns an Err: when it has returned for the parsed
\* algorithm the result is Ok of a non-empty string of hexadecimal digits, and
\* before the call this is what hash_string gives on the input in hand for
\* every algorithm of Algorithm::all() and every digest the hasher behind it
\* may produce.
AllAlgorithmsHash ==
    /\ (pc = "returned" /\ parsed.tag = "Ok")
           => /\ ret.tag = "Ok"
              /\ Len(ret.val) > 0
              /\ \A j \in 1..Len(ret.val) : ret.val[j] \in HexChars
    /\ pc = "idle" =>
           \A k \in 1..Len(all) : \A f \in ExtFills :
               LET r == hash_string(msg, all[k],
                                    [i \in 1..DigestSize(all[k]) |-> f])
               IN  /\ r.tag = "Ok"
                   /\ Len(r.val) > 0
                   /\ \A j \in 1..Len(r.val) : r.val[j] \in HexChars

\* the empty string was hashed with keccak512
AllAlgorithmsHashWitness ==
    /\ pc = "returned"
    /\ parsed.tag = "Ok"
    /\ parsed.val = "Keccak512"
    /\ msg = <<>>
    /\ ret.tag = "Ok"
    /\ Len(ret.val) = 128

\* ------------------------------------------------------------------------
\* Construction
\* ------------------------------------------------------------------------

\* value of one hexadecimal digit
HexValue(c) == (CHOOSE i \in 1..16 : to_lowercase(<<c>>)[1] = HexDigits[i]) - 1

\* the u32 written as eight hexadecimal digits
HexWord(s) ==
    <<HexValue(s[1]) * 4096 + HexValue(s[2]) * 256
        + HexValue(s[3]) * 16 + HexValue(s[4]),
      HexValue(s[5]) * 4096 + HexValue(s[6]) * 256
        + HexValue(s[7]) * 16 + HexValue(s[8])>>

InitialWords ==
    <<HexWord(<<"6", "7", "4", "5", "2", "3", "0", "1">>),
      HexWord(<<"E", "F", "C", "D", "A", "B", "8", "9">>),
      HexWord(<<"9", "8", "B", "A", "D", "C", "F", "E">>),
      HexWord(<<"1", "0", "3", "2", "5", "4", "7", "6">>),
      HexWord(<<"C", "3", "D", "2", "E", "1", "F", "0">>)>>

\* C14: every step that constructs an engine (Sha1::new in a session, in
\* hash_bytes or in hash_file) leaves the state words 0x67452301, 0xEFCDAB89,
\* 0x98BADCFE, 0x10325476, 0xC3D2E1F0, an empty buffer and a zero length
\* counter; an engine nothing was fed to still has them; and construction is
\* always possible where it is called (it has no failing outcome).
NewEngine ==
    /\ [][(pc = "idle" /\ pc' \in {"live", "reading"})
              => /\ h' = InitialWords
                 /\ buffer' = <<>>
                 /\ len' = <<0, 0, 0, 0>>]_vars
    /\ []((pc \in {"live", "reading"} /\ pos = 0)
              => /\ h = InitialWords
                 /\ buffer = <<>>
                 /\ len = <<0, 0, 0, 0>>)
    /\ [](pc = "idle" => ENABLED (\E m \in Messages : ApiNew(m)))

\* an engine has just been constructed and nothing was fed to it
NewEngineWitness ==
    /\ pc = "live"
    /\ pos = 0
    /\ digests = 0
    /\ h = InitialWords
    /\ Len(buffer) = 0

\* ------------------------------------------------------------------------
\* Pending buffer between feeds
\* ------------------------------------------------------------------------

\* C15: whenever update has returned (in a session or inside hash_file), with
\* pos bytes fed in total by any sequence of update calls, the pending buffer
\* holds fewer than 64 bytes, and exactly pos mod 64 of them.
BufferBelowBlock ==
    pc \in {"live", "reading"}
        => /\ Len(buffer) \in 0..63
           /\ Len(buffer) = pos % 64

\* updates of 129 bytes in total have returned: two blocks were processed and
\* one byte is pending
BufferBelowBlockWitness ==
    /\ pc = "live"
    /\ pos = 129
    /\ nblocks = 2
    /\ Len(buffer) = 1

\* ------------------------------------------------------------------------
\* Pending buffer around the block steps
\* ------------------------------------------------------------------------

\* C16 as stated: after every single process_block call made from update or
\* from digest fewer than 64 bytes are pending.
PendingBelowBlockAfterEveryBlock ==
    [][nblocks' = nblocks + 1 => Len(buffer') < 64]_vars

\* C16: every process_block call takes exactly the first 64 bytes off a
\* buffer that holds at least 64 and leaves the rest as it was (so 64 or more
\* may still be pending after a call in the middle of a drain); fewer than 64
\* bytes are pending whenever update returns, and none when digest returns.
PendingAfterDrain ==
    /\ [][nblocks' = nblocks + 1
              => /\ Len(buffer) >= 64
                 /\ buffer' = SubSeq(buffer, 65, Len(buffer))]_vars
    /\ [][(pc = "draining" /\ pc' = "live") => Len(buffer') < 64]_vars
    /\ [][(pc = "finishing" /\ pc' = "moved") => buffer' = <<>>]_vars
    /\ [](pc = "live" => Len(buffer) < 64)

\* the first of the two final blocks of a 56-byte message has been
\* processed: the second is still pending
PendingAfterDrainWitness ==
    /\ pc = "finishing"
    /\ pos = 56
    /\ nblocks = 1
    /\ Len(buffer) = 64

\* ------------------------------------------------------------------------
\* State words
\* ------------------------------------------------------------------------

\* C17: a step changes the state words only if it is a block step, and then
\* the buffer held at least 64 bytes and h becomes process_block of h and
\* exactly the first 64 of them; no other step of update or digest touches h,
\* and no block step is taken while fewer than 64 bytes have been fed since
\* the last block (so an update that leaves fewer than 64 bytes pending leaves
\* h as it was).
StateWordsOnlyByBlock ==
    /\ [][h' # h
              => /\ nblocks' = nblocks + 1
                 /\ Len(buffer) >= 64
                 /\ h' = process_block(h, SubSeq(buffer, 1, 64))]_vars
    /\ [][nblocks' = nblocks => h' = h]_vars
    /\ []((pc \in {"live", "draining"})
              => /\ 64 * nblocks + Len(buffer) = pos
                 /\ (pos < 64 => h = InitialWords))

\* an update of 65 bytes in total has returned after one block step
StateWordsOnlyByBlockWitness ==
    /\ pc = "live"
    /\ pos = 65
    /\ nblocks = 1
    /\ Len(buffer) = 1
    /\ h = process_block(InitialWords, SubSeq(msg, 1, 64))

\* ------------------------------------------------------------------------
\* Length counter
\* ------------------------------------------------------------------------

\* C18: after any sequence of update calls the length counter equals the sum
\* of the lengths of all data fed.
CounterIsSumOfLengths ==
    pc \in {"counting", "finalized", "panicked"} => <<0>> \o len = total

\* below 2^64 bytes: the counter is the number of bytes fed, the step of
\* update that buffers the data adds exactly data.len() to it, and no other
\* step of update or digest, block steps included, changes it
CounterStepByStep ==
    /\ [](len = U64(pos))
    /\ [][len' # len
              => /\ pc = "live"
                 /\ pc' = "draining"
                 /\ nblocks' = nblocks
                 /\ len' = AddU64(len, U64(pos' - pos)).val]_vars
    /\ [][nblocks' # nblocks => len' = len]_vars

\* ------------------------------------------------------------------------
\* Padding
\* ------------------------------------------------------------------------

\* the least z >= 0 with (p + 1 + z) mod 64 = 56
ZeroCount(p) ==
    CHOOSE z \in 0..63 :
        /\ (p + 1 + z) % 64 = 56
        /\ \A y \in 0..(z - 1) : (p + 1 + y) % 64 # 56

\* the 8-byte big-endian encoding of v, for v below 2^31
BigEndian8(v) ==
    <<0, 0, 0, 0, (v \div 16777216) % 256, (v \div 65536) % 256,
      (v \div 256) % 256, v % 256>>

\* C19: the step of digest that pads turns the pending bytes into
\* pending ++ <<0x80>> ++ z zero bytes ++ the 8 big-endian bytes of
\* (bytes fed * 8), z being the least number that brings the length before
\* the length bytes to 56 modulo 64; and the blocks digest then processes are
\* the consecutive 64-byte pieces of that string.
PaddingLayout ==
    /\ [][(pc = "live" /\ pc' = "finishing")
              => buffer' = buffer \o <<128>>
                             \o [i \in 1..ZeroCount(Len(buffer)) |-> 0]
                             \o BigEndian8(pos * 8)]_vars
    /\ [][(pc = "finishing" /\ nblocks' = nblocks + 1)
              => /\ h' = process_block(h, SubSeq(buffer, 1, 64))
                 /\ buffer' = SubSeq(buffer, 65, Len(buffer))]_vars

\* 56 bytes were fed and digest has padded them to two blocks, with 63 zero
\* bytes and the length field 448
PaddingLayoutWitness ==
    /\ pc = "finishing"
    /\ pos = 56
    /\ nblocks = 0
    /\ Len(buffer) = 128
    /\ buffer[57] = 128
    /\ SubSeq(buffer, 121, 128) = <<0, 0, 0, 0, 0, 0, 1, 192>>

\* ------------------------------------------------------------------------
\* Block boundaries of digest
\* ------------------------------------------------------------------------

\* C20: with p pending bytes the padding step leaves 64 bytes when p <= 55
\* and 128 when p >= 56; while digest drains, the buffer length is a multiple
\* of 64, so no drain(..64) is out of range and nothing panics; when digest
\* has returned the buffer is empty and, L bytes having been fed in total,
\* exactly floor((L + 8) / 64) + 1 block steps were taken by update and
\* digest together.
FinalBlocks ==
    /\ [][(pc = "live" /\ pc' = "finishing")
              => /\ Len(buffer) \in 0..63
                 /\ Len(buffer') = IF Len(buffer) <= 55 THEN 64 ELSE 128]_vars
    /\ [](pc = "finishing" => Len(buffer) \in {0, 64, 128})
    /\ [](pc # "panicked")
    /\ [](pc = "moved"
              => /\ buffer = <<>>
                 /\ nblocks = ((pos + 8) \div 64) + 1)

\* a message of 120 bytes was digested in three block steps
FinalBlocksWitness ==
    /\ pc = "moved"
    /\ pos = 120
    /\ nblocks = 3
    /\ buffer = <<>>

\* ------------------------------------------------------------------------
\* Message schedule
\* ------------------------------------------------------------------------

\* the 32 bits of a u32, most significant first
Bits(x) ==
    [j \in 1..32 |-> IF j <= 16 THEN (x[1] \div Pow2(16 - j)) % 2
                                ELSE (x[2] \div Pow2(32 - j)) % 2]

\* the 8 bits of a byte, most significant first
ByteBits(b) == [j \in 1..8 |-> (b \div Pow2(8 - j)) % 2]

\* rotation to the left by n places, on bits
RotlBits(b, n) == [j \in 1..32 |-> b[((j - 1 + n) % 32) + 1]]

XorBits(a, b) == [j \in 1..32 |-> (a[j] + b[j]) % 2]

\* C21: in every block step, the schedule of the block processed has 80
\* 32-bit words; word i of the first sixteen is bytes 4i..4i+3 of the block,
\* most significant first, and every word i of 16..79 is
\* w[i-3] xor w[i-8] xor w[i-14] xor w[i-16] rotated left by one bit.
MessageSchedule ==
    [][nblocks' = nblocks + 1
          => LET block == SubSeq(buffer, 1, 64)
                 w     == Schedule(BlockWords(block))
             IN  /\ Len(block) = 64
                 /\ Len(w) = 80
                 /\ \A i \in 1..80 : w[i] \in (0..65535) \X (0..65535)
                 /\ \A i \in 0..15 :
                        Bits(w[i + 1]) =
                            ByteBits(block[4 * i + 1])
                              \o ByteBits(block[4 * i + 2])
                              \o ByteBits(block[4 * i + 3])
                              \o ByteBits(block[4 * i + 4])
                 /\ \A i \in 16..79 :
                        Bits(w[i + 1]) =
                            RotlBits(XorBits(XorBits(XorBits(
                                Bits(w[i - 3 + 1]), Bits(w[i - 8 + 1])),
                                Bits(w[i - 14 + 1])), Bits(w[i - 16 + 1])), 1)
                 /\ h' = process_block(h, block)]_vars

\* the first 64 bytes of the message have been processed as one block
MessageScheduleWitness ==
    /\ pc = "draining"
    /\ pos = 64
    /\ nblocks = 1
    /\ buffer = <<>>
    /\ h = process_block(new.h, SubSeq(msg, 1, 64))

\* ------------------------------------------------------------------------
\* Compression rounds
\* ------------------------------------------------------------------------

AndB(a, b) == [j \in 1..32 |-> a[j] * b[j]]

OrB(a, b) == [j \in 1..32 |-> IF a[j] + b[j] >= 1 THEN 1 ELSE 0]

NotB(a) == [j \in 1..32 |-> 1 - a[j]]

RECURSIVE AddFrom(_, _, _, _, _)
\* the sum of two bit vectors modulo 2^32, from bit j (32 = least
\* significant) upwards with the carry coming in
AddFrom(a, b, j, carry, acc) ==
    IF Len(acc) = 32 - j /\ j >= 1
    THEN AddFrom(a, b, j - 1, (a[j] + b[j] + carry) \div 2,
                 <<(a[j] + b[j] + carry) % 2>> \o acc)
    ELSE acc

AddB(a, b) == AddFrom(a, b, 32, 0, <<>>)

\* f and k of round i, as the four ranges of rounds give them
FBits(i, b, c, d) ==
    CASE i \in 0..19  -> OrB(AndB(b, c), AndB(NotB(b), d))
      [] i \in 20..39 -> XorBits(XorBits(b, c), d)
      [] i \in 40..59 -> OrB(OrB(AndB(b, c), AndB(b, d)), AndB(c, d))
      [] i \in 60..79 -> XorBits(XorBits(b, c), d)

KBits(i) ==
    CASE i \in 0..19  -> Bits(HexWord(<<"5", "A", "8", "2", "7", "9", "9", "9">>))
      [] i \in 20..39 -> Bits(HexWord(<<"6", "E", "D", "9", "E", "B", "A", "1">>))
      [] i \in 40..59 -> Bits(HexWord(<<"8", "F", "1", "B", "B", "C", "D", "C">>))
      [] i \in 60..79 -> Bits(HexWord(<<"C", "A", "6", "2", "C", "1", "D", "6">>))

\* round i on the working variables s = <<a, b, c, d, e>>, as bit vectors
RoundBits(i, s, w) ==
    LET temp == AddB(AddB(AddB(AddB(RotlBits(s[1], 5),
                                    FBits(i, s[2], s[3], s[4])),
                               s[5]), KBits(i)), Bits(w[i + 1]))
    IN  <<temp, s[1], RotlBits(s[2], 30), s[3], s[4]>>

RECURSIVE RoundsBits(_, _, _)
\* rounds i..79
RoundsBits(i, s, w) ==
    IF Len(s[1]) = 32 /\ i <= 79 THEN RoundsBits(i + 1, RoundBits(i, s, w), w)
    ELSE s

\* C22: in every block step the new state words are the old ones plus,
\* modulo 2^32 and in order, the working variables a..e obtained from
\* a..e = h by the 80 rounds of the claim (f and k by range of rounds,
\* temp = rotateLeft(a,5) + f + e + k + w[i] modulo 2^32, then the shift of
\* e, d, c = rotateLeft(b,30), b, a), and every word stays below 2^32.
CompressionRounds ==
    [][nblocks' = nblocks + 1
          => LET w == Schedule(BlockWords(SubSeq(buffer, 1, 64)))
                 s == RoundsBits(0, [i \in 1..5 |-> Bits(h[i])], w)
             IN  /\ \A i \in 1..5 :
                        /\ h'[i] \in (0..65535) \X (0..65535)
                        /\ Bits(h'[i]) = AddB(Bits(h[i]), s[i])
                 /\ h' = process_block(h, SubSeq(buffer, 1, 64))]_vars

\* a 64-byte message was digested: its block and the padding block went
\* through the rounds
CompressionRoundsWitness ==
    /\ pc = "moved"
    /\ pos = 64
    /\ nblocks = 2
    /\ out = h
    /\ h # new.h

\* ------------------------------------------------------------------------
\* Digest serialization
\* ------------------------------------------------------------------------

\* C23: when a digest has been returned as text, the 20 bytes behind it are
\* the five final state words in order, each most significant byte first:
\* bytes 4i..4i+3 read back as a big-endian 32-bit word are h[i], for
\* i = 0..4, and the text returned is the hex encoding of these bytes.
DigestSerialization ==
    (pc = "returned" /\ ret.tag = "Ok")
        => LET d == bytes(out)
           IN  /\ Len(d) = 20
               /\ \A i \in 0..4 :
                      /\ Bits(out[i + 1]) =
                             ByteBits(d[4 * i + 1]) \o ByteBits(d[4 * i + 2])
                               \o ByteBits(d[4 * i + 3])
                               \o ByteBits(d[4 * i + 4])
                      /\ from_be_bytes(d[4 * i + 1], d[4 * i + 2],
                                       d[4 * i + 3], d[4 * i + 4]) = out[i + 1]
               /\ ret.val = hex_encode(d)

\* the digest of "abc" was returned: a9 99 3e 36 ... 9c d0 d8 9d
DigestSerializationWitness ==
    /\ pc = "returned"
    /\ ret.tag = "Ok"
    /\ msg = Abc
    /\ bytes(out)[1] = 169
    /\ bytes(out)[4] = 54
    /\ bytes(out)[20] = 157

\* ------------------------------------------------------------------------
\* Order of the blocks
\* ------------------------------------------------------------------------

RECURSIVE FoldBlocks(_, _, _)
\* the state words hh after blocks k, k+1, ..., n-1 of x, in this order,
\* where kn = <<k, n>> and block k is x[64k .. 64k+64)
FoldBlocks(hh, x, kn) ==
    IF Len(hh) = 5 /\ kn[1] < kn[2]
    THEN FoldBlocks(process_block(hh, SubSeq(x, 64 * kn[1] + 1,
                                             64 * kn[1] + 64)),
                    x, <<kn[1] + 1, kn[2]>>)
    ELSE hh

\* C24: the k-th block step of the update calls (k from 0) processes bytes
\* 64k .. 64k+63 of the data fed; whenever update has returned with T bytes
\* fed in all, floor(T / 64) blocks have been processed, the state words are
\* those of these blocks taken in input order, and the pending buffer is the
\* last T mod 64 bytes fed, in order.
BlocksInOrder ==
    /\ [][(pc = "draining" /\ nblocks' = nblocks + 1)
              => /\ 64 * nblocks + 64 <= pos
                 /\ SubSeq(buffer, 1, 64)
                        = SubSeq(msg, 64 * nblocks + 1, 64 * nblocks + 64)]_vars
    /\ [](pc = "live"
              => /\ nblocks = pos \div 64
                 /\ buffer = SubSeq(msg, pos - (pos % 64) + 1, pos)
                 /\ h = FoldBlocks(new.h, msg, <<0, pos \div 64>>))

\* 129 bytes were fed: blocks 0 and 1 were processed and byte 128 is pending
BlocksInOrderWitness ==
    /\ pc = "live"
    /\ pos = 129
    /\ nblocks = 2
    /\ buffer = <<msg[129]>>
    /\ h = process_block(process_block(new.h, SubSeq(msg, 1, 64)),
                         SubSeq(msg, 65, 128))

\* ------------------------------------------------------------------------
\* Empty feeds
\* ------------------------------------------------------------------------

\* C25: on every engine reached by update calls, update with no data returns
\* the engine as it was (same h, len and buffer, no block processed); taken
\* step by step, the call buffers nothing, counts nothing, finds fewer than
\* 64 bytes pending and returns; and the digest is that of the bytes fed,
\* whatever empty feeds were made on the way.
EmptyFeedNoOp ==
    /\ [](pc = "live"
              => update(engine, <<>>) =
                     [h |-> h, len |-> len, buffer |-> buffer,
                      blocks |-> 0, ovf |-> FALSE])
    /\ [][(pc = "live" /\ pc' = "draining" /\ pos' = pos)
              => /\ UNCHANGED <<h, len, buffer, nblocks>>
                 /\ Len(buffer') < 64]_vars
    /\ [][(pc = "draining" /\ Len(buffer) < 64)
              => /\ UNCHANGED <<h, len, buffer, nblocks>>
                 /\ pc' = "live"]_vars
    /\ [](pc = "moved" => out = digest(update(new, fed)).h)

\* update was called with no data on an engine nothing was fed to, and has
\* not returned yet
EmptyFeedNoOpWitness ==
    /\ pc = "draining"
    /\ pos = 0
    /\ nblocks = 0
    /\ buffer = <<>>
    /\ h = new.h
    /\ len = new.len

\* ------------------------------------------------------------------------
\* Names and variants
\* ------------------------------------------------------------------------

\* C26: Algorithm::all() has 19 entries, every variant of the enum among
\* them and none twice; no two variants have the same name; from_str of the
\* name of a variant is Ok of that variant; and whenever the name typed is
\* the name of a variant, that variant is what from_str returned.
NameRoundTrip ==
    /\ Len(all) = 19
    /\ Cardinality(Algorithm) = 19
    /\ {all[i] : i \in 1..Len(all)} = Algorithm
    /\ \A i, j \in 1..Len(all) : all[i] = all[j] => i = j
    /\ \A a, b \in Algorithm : name(a) = name(b) => a = b
    /\ \A a \in Algorithm :
           /\ from_str(name(a)).tag = "Ok"
           /\ from_str(name(a)).val = a
    /\ parsed.tag # "None"
           => \A a \in Algorithm :
                  algName = name(a) => parsed.tag = "Ok" /\ parsed.val = a

\* sha512-256, the name of Sha512_256, was typed and parsed
NameRoundTripWitness ==
    /\ pc = "parsed"
    /\ algName = name("Sha512_256")
    /\ parsed.tag = "Ok"
    /\ parsed.val = "Sha512_256"

====
